---- MODULE Spec2Model ----
(***************************************************************************)
(* Concurrent ATM (src/main.go): one producer goroutine reads transaction  *)
(* rows and sends them on an unbuffered channel, consumerCount consumer    *)
(* goroutines receive them, take the weighted semaphore of the            *)
(* transaction's user, apply withdraw/deposit to the shared accountList    *)
(* map under mapMutex, release the semaphore, and finally send on the      *)
(* unbuffered done channel.  main receives ONE value from done, prints the *)
(* map and returns, which ends the process.                                *)
(*                                                                         *)
(* Balances and amounts are float64 in the source; every value used here   *)
(* is a small whole number, on which float64 +, - and >= are exact, so     *)
(* they are modelled as integers.                                          *)
(***************************************************************************)
EXTENDS Integers, Sequences, FiniteSets, TLC

\* ------------------------------------------------------------------ bounds
\* Largest number of consumer goroutines explored (consumerCount is 50 in
\* the source; the pool size is a configuration parameter).
MaxConsumers == 2
\* Largest number of rows the CSV reader yields before EOF.
MaxRows == 3

\* ------------------------------------------------------------ program data
\* semaphore.NewWeighted(1): the capacity of each user's semaphore.
SemaphoreWeight == 1

\* accountList as written in the source (key 8 really carries id 7).
SeedSource ==
  << [id |-> 1, name |-> "Yuri",      value |-> 200000],
     [id |-> 2, name |-> "Raphael",   value |-> 130000],
     [id |-> 3, name |-> "Dalton",    value |-> 150000],
     [id |-> 4, name |-> "Maranhao",  value |-> 170000],
     [id |-> 5, name |-> "Fernando",  value |-> 1],
     [id |-> 6, name |-> "Cordeiro",  value |-> 5000000],
     [id |-> 7, name |-> "Christian", value |-> 20000],
     [id |-> 7, name |-> "Paula",     value |-> 27000] >>

\* The two-account seed of the end-to-end scenario.
SeedScenario ==
  << [id |-> 1, name |-> "A", value |-> 100],
     [id |-> 2, name |-> "B", value |-> 50] >>

Seeds == {SeedSource, SeedScenario}

WITHDRAW == 1
DEPOSIT == 2

\* The rows the CSV reader may yield, <<value, transactionType, userID>>,
\* for a run seeded with the scenario's two accounts: the scenario's three
\* transactions and a row for an account past the last one.
RowsScenario ==
  { <<30, DEPOSIT, 1>>, <<20, WITHDRAW, 1>>, <<10, DEPOSIT, 2>>,
    <<10, DEPOSIT, 3>> }

\* The rows the CSV reader may yield for a run seeded with the source's
\* accounts: a deposit and a withdrawal on account 5 (balance 1), a row of
\* unknown type and a row for account 0.
RowsSource ==
  { <<50, DEPOSIT, 5>>, <<50, WITHDRAW, 5>>, <<5, 3, 5>>, <<10, WITHDRAW, 0>> }

Rows(s) == IF s = SeedScenario THEN RowsScenario ELSE RowsSource

VARIABLES
  seed,             \* the accountList literal the run started from
  consumerCount,    \* number of consumer goroutines started by main
  accountList,      \* the shared map: key -> account
  semaphores,       \* Go slice, index 0..n-1 -> units currently acquired
  mapMutex,         \* sync.RWMutex: [readers, writer]
  ppc,              \* produce: "read" | "send" | "done" | "panic"
  transactionData,  \* produce: the transaction about to be sent
  closed,           \* transactionChannel has been closed
  pc,               \* consume: position of each consumer
  txn,              \* consume: the transaction the consumer is processing
  accountData,      \* withdraw/deposit: the local snapshot read from the map
  mainpc,           \* main: "wait" | "report" | "reporting" | "exit"
  report,           \* what main's final Println read from accountList
  status,           \* process: "running" | "exited" | "panic" | "fatal"
  rowsRead,         \* history: the rows read so far, in input order
  pulledOrder,      \* history: transactions in the order they left the channel
  applies,          \* history: per transaction id, number of map writes
  releases,         \* history: per transaction id, number of Release calls
  held              \* history: per consumer, semaphore indexes acquired and not released

vars == << seed, consumerCount, accountList, semaphores, mapMutex, ppc,
           transactionData, closed, pc, txn, accountData, mainpc, report,
           status, rowsRead, pulledOrder, applies, releases, held >>

Consumers == 1..consumerCount

NoTxn == [id |-> 0, value |-> 0, transactionType |-> 0, userID |-> 0]
NoAccount == [id |-> 0, name |-> "", value |-> 0]

\* Mutant of SemIndex: the index is the user id itself.
SemIndexNoOffset(userID) == userID

\* semaphores[transactionData.userID-1]: the Go slice index used by consume.
SemIndex(userID) == userID - 1

\* main, lines 231-233: one semaphore per entry of accountList.
NewSemaphores(accounts) == [i \in 0..(Len(accounts) - 1) |-> 0]

Init ==
  /\ seed \in Seeds
  /\ consumerCount \in 1..MaxConsumers
  /\ accountList = seed
  /\ semaphores = NewSemaphores(seed)
  /\ mapMutex = [readers |-> 0, writer |-> 0]
  /\ ppc = "read"
  /\ transactionData = NoTxn
  /\ closed = FALSE
  /\ pc = [w \in Consumers |-> "recv"]
  /\ txn = [w \in Consumers |-> NoTxn]
  /\ accountData = [w \in Consumers |-> NoAccount]
  /\ mainpc = "wait"
  /\ report = << >>
  /\ status = "running"
  /\ rowsRead = << >>
  /\ pulledOrder = << >>
  /\ applies = << >>
  /\ releases = << >>
  /\ held = [w \in Consumers |-> {}]


Running == status = "running"

\* Go map read m[k]: the stored value, or the zero value for a missing key.
MapGet(m, k) == IF k \in DOMAIN m THEN m[k] ELSE NoAccount

\* Go map assignment m[k] = v: replaces the entry, or creates it.
MapPut(m, k, v) == [x \in (DOMAIN m) \cup {k} |-> IF x = k THEN v ELSE m[x]]

\* Append one slot to a per-transaction history.
Grow(h, v) == Append(h, v)

\* ---------------------------------------------------------------- produce
\* Lines 92-124: csvr.Read() yields a row whose four fields parse; the
\* transaction id is the row's ordinal.
ProduceRead ==
  /\ Running /\ ppc = "read"
  /\ Len(rowsRead) < MaxRows
  /\ \E row \in Rows(seed) :
       /\ transactionData' = [id |-> Len(rowsRead) + 1, value |-> row[1],
                              transactionType |-> row[2], userID |-> row[3]]
       /\ rowsRead' = Append(rowsRead, transactionData')
  /\ ppc' = "send"
  /\ applies' = Grow(applies, 0)
  /\ releases' = Grow(releases, 0)
  /\ UNCHANGED << seed, consumerCount, accountList, semaphores, mapMutex,
                  closed, pc, txn, accountData, mainpc, report, status,
                  pulledOrder, held >>

\* Lines 100-121: a field of the row does not parse, log.Fatal ends the run.
ProduceFatal ==
  /\ Running /\ ppc = "read"
  /\ Len(rowsRead) < MaxRows
  /\ status' = "fatal"
  /\ UNCHANGED << seed, consumerCount, accountList, semaphores, mapMutex, ppc,
                  transactionData, closed, pc, txn, accountData, mainpc,
                  report, rowsRead, pulledOrder, applies, releases,
                  held >>

\* Lines 92-118: csvr.Read() yields a record with fewer than four fields, or
\* nil with an error other than io.EOF (line 95 tests io.EOF only); indexing
\* row[0..3] is out of range and the produce goroutine panics.
ProducePanic ==
  /\ Running /\ ppc = "read"
  /\ Len(rowsRead) < MaxRows
  /\ ppc' = "panic"
  /\ status' = "panic"
  /\ UNCHANGED << seed, consumerCount, accountList, semaphores, mapMutex,
                  transactionData, closed, pc, txn, accountData, mainpc,
                  report, rowsRead, pulledOrder, applies, releases,
                  held >>

\* Mutant of AfterClose: the channel is closed inside the loop, which goes on.
AfterCloseContinue == "read"

\* Where produce is after close(transactionChannel), line 131: at its end.
AfterClose == "done"

\* Mutant of ClosedAtEOF: produce returns without closing the channel.
LeftOpenAtEOF == FALSE

\* Line 131: close(transactionChannel) marks the channel closed.
ClosedAtEOF == TRUE

\* Lines 95-97 and 131: EOF, leave the loop and close the channel.
ProduceClose ==
  /\ Running /\ ppc = "read"
  /\ closed' = ClosedAtEOF
  /\ ppc' = AfterClose
  /\ UNCHANGED << seed, consumerCount, accountList, semaphores, mapMutex,
                  transactionData, pc, txn, accountData, mainpc, report,
                  status, rowsRead, pulledOrder, applies, releases,
                  held >>

\* Mutant of AfterSend: the producer offers the same transaction again.
AfterSendResend == "send"

\* What the producer does once its send on the unbuffered channel has been
\* taken (line 127 returns, back to the top of the loop).
AfterSend == "read"

\* ---------------------------------------------------------------- consume
\* Lines 127 and 138: the unbuffered channel hands the producer's pending
\* transaction to one consumer blocked in range.
Receive(w) ==
  /\ Running /\ ppc = "send" /\ pc[w] = "recv"
  /\ txn' = [txn EXCEPT ![w] = transactionData]
  /\ pc' = [pc EXCEPT ![w] = "acquire"]
  /\ ppc' = AfterSend
  /\ pulledOrder' = Append(pulledOrder, transactionData)
  /\ UNCHANGED << seed, consumerCount, accountList, semaphores, mapMutex,
                  transactionData, closed, accountData, mainpc, report,
                  status, rowsRead, applies, releases, held >>

\* Line 138: range ends on a closed, empty channel; line 160 is next.
RangeEnd(w) ==
  /\ Running /\ closed /\ pc[w] = "recv"
  /\ pc' = [pc EXCEPT ![w] = "senddone"]
  /\ UNCHANGED << seed, consumerCount, accountList, semaphores, mapMutex, ppc,
                  transactionData, closed, txn, accountData, mainpc, report,
                  status, rowsRead, pulledOrder, applies, releases,
                  held >>

\* Mutants of CanAcquire: the Acquire never blocks; the semaphore was made
\* with weight 2.
CanAcquireAlways(cur) == TRUE
CanAcquireTwice(cur) == cur + 1 <= SemaphoreWeight + 1

\* Weighted.Acquire(ctx, 1) succeeds when a unit is free.
CanAcquire(cur) == cur + 1 <= SemaphoreWeight

\* Mutants of Dispatch: a type that is neither 1 nor 2 sends consume back to
\* the channel without the Release; such a type is handled as a deposit.
DispatchSkipRelease(t) ==
  IF t.transactionType \in {WITHDRAW, DEPOSIT} THEN "rlock" ELSE "recv"
DispatchDefaultDeposit(t) == "rlock"

\* Lines 146-151: where consume goes after the Acquire.
Dispatch(t) ==
  IF t.transactionType \in {WITHDRAW, DEPOSIT} THEN "rlock" ELSE "release"

\* Lines 141-151: index the semaphore slice (a run-time panic when the index
\* is out of range), block until the unit is free, then switch on the type.
Acquire(w) ==
  /\ Running /\ pc[w] = "acquire"
  /\ LET i == SemIndex(txn[w].userID) IN
       IF i \notin DOMAIN semaphores
       THEN /\ status' = "panic"
            /\ UNCHANGED << semaphores, pc, held >>
       ELSE /\ CanAcquire(semaphores[i])
            /\ semaphores' = [semaphores EXCEPT ![i] = @ + 1]
            /\ held' = [held EXCEPT ![w] = @ \cup {i}]
            /\ pc' = [pc EXCEPT ![w] = Dispatch(txn[w])]
            /\ UNCHANGED status
  /\ UNCHANGED << seed, consumerCount, accountList, mapMutex, ppc,
                  transactionData, closed, txn, accountData, mainpc, report,
                  rowsRead, pulledOrder, applies, releases >>

\* Where consume goes after the Release (line 157, back to range).
AfterRelease == "recv"

\* Line 156: Weighted.Release(1) panics when more is released than held.
Release(w) ==
  /\ Running /\ pc[w] = "release"
  /\ LET i == SemIndex(txn[w].userID) IN
       IF semaphores[i] < 1
       THEN /\ status' = "panic"
            /\ UNCHANGED << semaphores, pc, held, releases, txn, accountData >>
       ELSE /\ semaphores' = [semaphores EXCEPT ![i] = @ - 1]
            /\ held' = [held EXCEPT ![w] = @ \ {i}]
            /\ releases' = [releases EXCEPT ![txn[w].id] = @ + 1]
            /\ pc' = [pc EXCEPT ![w] = AfterRelease]
            /\ txn' = [txn EXCEPT ![w] = NoTxn]
            /\ accountData' = [accountData EXCEPT ![w] = NoAccount]
            /\ UNCHANGED status
  /\ UNCHANGED << seed, consumerCount, accountList, mapMutex, ppc,
                  transactionData, closed, mainpc, report,
                  rowsRead, pulledOrder, applies >>

\* --------------------------------------------------------------- mapMutex
\* sync.RWMutex.RLock: blocks while a writer holds or has asked for the lock.
CanRLock == mapMutex.writer = 0
\* sync.RWMutex.Lock, first half: take the writer slot (pending readers drain).
CanLock == mapMutex.writer = 0
\* sync.RWMutex.Lock, second half: the last reader has left.
ReadersGone == mapMutex.readers = 0

\* ------------------------------------------------------ withdraw / deposit
\* Mutants of HasFunds: the funds test is left out; the test only asks for a
\* balance that is not negative.
HasFundsAlways(account, t) == TRUE
HasFundsNotNegative(account, t) == account.value >= 0

\* Line 173: the funds test of withdraw.
HasFunds(account, t) == account.value >= t.value

\* Mutant of Withdrawn: the amount is added (as the comment on line 172 says)
\* instead of subtracted.
WithdrawnAdds(account, t) ==
  [id |-> account.id, name |-> account.name, value |-> account.value + t.value]

\* Lines 175-179: the account withdraw writes back.
Withdrawn(account, t) ==
  [id |-> account.id, name |-> account.name, value |-> account.value - t.value]

\* Mutant of Deposited: the struct literal leaves the name out (zero value).
DepositedDropsName(account, t) ==
  [id |-> account.id, name |-> "", value |-> account.value + t.value]

\* Lines 198-202: the account deposit writes back.
Deposited(account, t) ==
  [id |-> account.id, name |-> account.name, value |-> account.value + t.value]

\* Mutant of WithdrawNext: a rejected withdrawal goes straight back to the
\* channel, skipping the Release.
WithdrawNextSkipRelease(w, snapshot) ==
  IF snapshot.value >= txn[w].value THEN "lock" ELSE "recv"

\* Line 173: withdraw writes only when the snapshot covers the amount.
WithdrawNext(w, snapshot) ==
  IF HasFunds(snapshot, txn[w]) THEN "lock" ELSE "release"

\* Where withdraw (line 173) or deposit (unconditionally, line 204) goes
\* with the snapshot it has read.
NextAfterRead(w, snapshot) ==
  IF txn[w].transactionType = WITHDRAW THEN WithdrawNext(w, snapshot)
  ELSE "lock"

\* The account written back by withdraw (lines 175-179) or deposit
\* (lines 198-202).
Updated(account, t) ==
  IF t.transactionType = WITHDRAW THEN Withdrawn(account, t)
  ELSE Deposited(account, t)

\* Lines 168 / 193: mapMutex.RLock().
RLockStep(w, kind) ==
  /\ Running /\ pc[w] = "rlock" /\ txn[w].transactionType = kind
  /\ CanRLock
  /\ mapMutex' = [mapMutex EXCEPT !.readers = @ + 1]
  /\ pc' = [pc EXCEPT ![w] = "read"]
  /\ UNCHANGED << seed, consumerCount, accountList, semaphores, ppc,
                  transactionData, closed, txn, accountData, mainpc, report,
                  status, rowsRead, pulledOrder, applies, releases,
                  held >>

\* Lines 169-170 / 194-195: read the entry, RUnlock, go on with the snapshot.
ReadStep(w, kind) ==
  /\ Running /\ pc[w] = "read" /\ txn[w].transactionType = kind
  /\ LET snapshot == MapGet(accountList, txn[w].userID) IN
       /\ accountData' = [accountData EXCEPT ![w] = snapshot]
       /\ pc' = [pc EXCEPT ![w] = NextAfterRead(w, snapshot)]
  /\ mapMutex' = [mapMutex EXCEPT !.readers = @ - 1]
  /\ UNCHANGED << seed, consumerCount, accountList, semaphores, ppc,
                  transactionData, closed, txn, mainpc, report, status,
                  rowsRead, pulledOrder, applies, releases, held >>

\* Lines 182 / 204: mapMutex.Lock() takes the writer slot.
LockStep(w, kind) ==
  /\ Running /\ pc[w] = "lock" /\ txn[w].transactionType = kind
  /\ CanLock
  /\ mapMutex' = [mapMutex EXCEPT !.writer = w]
  /\ pc' = [pc EXCEPT ![w] = "lockwait"]
  /\ UNCHANGED << seed, consumerCount, accountList, semaphores, ppc,
                  transactionData, closed, txn, accountData, mainpc, report,
                  status, rowsRead, pulledOrder, applies, releases,
                  held >>

\* Lines 182 / 204: mapMutex.Lock() returns once the readers have left.
LockedStep(w, kind) ==
  /\ Running /\ pc[w] = "lockwait" /\ txn[w].transactionType = kind
  /\ ReadersGone
  /\ pc' = [pc EXCEPT ![w] = "write"]
  /\ UNCHANGED << seed, consumerCount, accountList, semaphores, mapMutex, ppc,
                  transactionData, closed, txn, accountData, mainpc, report,
                  status, rowsRead, pulledOrder, applies, releases,
                  held >>

\* Line 243 reads the map without mapMutex: a write that lands while main is
\* printing is a data race, and the print may show the old or the new entry.
RacyReport(k, v) ==
  IF mainpc = "reporting" THEN {report, MapPut(report, k, v)} ELSE {report}

\* Lines 183-184 / 205-206: store the updated account, Unlock, return.
WriteStep(w, kind) ==
  /\ Running /\ pc[w] = "write" /\ txn[w].transactionType = kind
  /\ LET v == Updated(accountData[w], txn[w]) IN
       /\ accountList' = MapPut(accountList, txn[w].userID, v)
       /\ report' \in RacyReport(txn[w].userID, v)
  /\ mapMutex' = [mapMutex EXCEPT !.writer = 0]
  /\ applies' = [applies EXCEPT ![txn[w].id] = @ + 1]
  /\ pc' = [pc EXCEPT ![w] = "release"]
  /\ UNCHANGED << seed, consumerCount, semaphores, ppc, transactionData,
                  closed, txn, accountData, mainpc, status, rowsRead,
                  pulledOrder, releases, held >>

WithdrawRLock(w) == RLockStep(w, WITHDRAW)
WithdrawRead(w) == ReadStep(w, WITHDRAW)
WithdrawLock(w) == LockStep(w, WITHDRAW)
WithdrawLocked(w) == LockedStep(w, WITHDRAW)
WithdrawWrite(w) == WriteStep(w, WITHDRAW)

DepositRLock(w) == RLockStep(w, DEPOSIT)
DepositRead(w) == ReadStep(w, DEPOSIT)
DepositLock(w) == LockStep(w, DEPOSIT)
DepositLocked(w) == LockedStep(w, DEPOSIT)
DepositWrite(w) == WriteStep(w, DEPOSIT)

\* ------------------------------------------------------------------- main
\* Lines 160 and 241: main takes one value from the unbuffered done channel;
\* the consumer that sent it returns.
MainRecvDone(w) ==
  /\ Running /\ mainpc = "wait" /\ pc[w] = "senddone"
  /\ mainpc' = "report"
  /\ pc' = [pc EXCEPT ![w] = "exited"]
  /\ UNCHANGED << seed, consumerCount, accountList, semaphores, mapMutex, ppc,
                  transactionData, closed, txn, accountData, report, status,
                  rowsRead, pulledOrder, applies, releases, held >>

\* Line 243: Println starts to walk accountList.
MainReportBegin ==
  /\ Running /\ mainpc = "report"
  /\ mainpc' = "reporting"
  /\ report' = accountList
  /\ UNCHANGED << seed, consumerCount, accountList, semaphores, mapMutex, ppc,
                  transactionData, closed, pc, txn, accountData, status,
                  rowsRead, pulledOrder, applies, releases, held >>

\* Line 243: the Go runtime finds the map being written while it is walked
\* ("concurrent map iteration and map write") and aborts the process.
MainReportRace(w) ==
  /\ Running /\ mainpc = "reporting" /\ pc[w] = "write"
  /\ status' = "fatal"
  /\ UNCHANGED << seed, consumerCount, accountList, semaphores, mapMutex, ppc,
                  transactionData, closed, pc, txn, accountData, mainpc,
                  report, rowsRead, pulledOrder, applies, releases,
                  held >>

\* Lines 243-244: the print is done and main returns; the process ends and
\* every goroutine with it.
MainExit ==
  /\ Running /\ mainpc = "reporting"
  /\ mainpc' = "exit"
  /\ status' = "exited"
  /\ UNCHANGED << seed, consumerCount, accountList, semaphores, mapMutex, ppc,
                  transactionData, closed, pc, txn, accountData, report,
                  rowsRead, pulledOrder, applies, releases, held >>

\* Lines 134-161: any step of consumer w, the send on done that ends consume
\* (line 160, taken together with main's receive) included.
ConsumerStep(w) ==
  \/ MainRecvDone(w)
  \/ Receive(w) \/ RangeEnd(w) \/ Acquire(w)
  \/ WithdrawRLock(w) \/ WithdrawRead(w) \/ WithdrawLock(w)
  \/ WithdrawLocked(w) \/ WithdrawWrite(w)
  \/ DepositRLock(w) \/ DepositRead(w) \/ DepositLock(w)
  \/ DepositLocked(w) \/ DepositWrite(w)
  \/ Release(w)

Next ==
  \/ ProduceRead
  \/ ProduceFatal
  \/ ProducePanic
  \/ ProduceClose
  \/ \E w \in Consumers : Receive(w)
  \/ \E w \in Consumers : RangeEnd(w)
  \/ \E w \in Consumers : Acquire(w)
  \/ \E w \in Consumers : WithdrawRLock(w)
  \/ \E w \in Consumers : WithdrawRead(w)
  \/ \E w \in Consumers : WithdrawLock(w)
  \/ \E w \in Consumers : WithdrawLocked(w)
  \/ \E w \in Consumers : WithdrawWrite(w)
  \/ \E w \in Consumers : DepositRLock(w)
  \/ \E w \in Consumers : DepositRead(w)
  \/ \E w \in Consumers : DepositLock(w)
  \/ \E w \in Consumers : DepositLocked(w)
  \/ \E w \in Consumers : DepositWrite(w)
  \/ \E w \in Consumers : Release(w)
  \/ \E w \in Consumers : MainRecvDone(w)
  \/ MainReportBegin
  \/ \E w \in Consumers : MainReportRace(w)
  \/ MainExit

Spec == Init /\ [][Next]_vars

\* The Go scheduler runs a goroutine that can run: the process does not stop
\* while some step is possible.
FairSpec == Spec /\ WF_vars(Next)

\* ================================================================ claims

\* The accounts of the run and the transactions read so far.
AccountIds == DOMAIN seed
TxnIds == 1..Len(rowsRead)

\* A consumer is inside the read-modify-write cycle of withdraw or deposit:
\* from the map read up to the write (a rejected withdrawal leaves the cycle
\* at the read).
InCycle(w) == pc[w] \in {"read", "lock", "lockwait", "write"}
CycleOn(a) == {w \in Consumers : InCycle(w) /\ txn[w].userID = a}

\* C1: mutual exclusion per account: at most one consumer is inside the
\* read-modify-write cycle of withdraw or deposit for any one account.
C1_MutualExclusion ==
  \A a \in AccountIds : Cardinality(CycleOn(a)) <= 1

\* C1 witness: one consumer is in its cycle on an account while another,
\* holding a transaction on the same account, waits for the semaphore.
C1_Witness ==
  \E w1, w2 \in Consumers :
    /\ w1 # w2
    /\ InCycle(w1)
    /\ pc[w2] = "acquire"
    /\ txn[w2].userID = txn[w1].userID

\* C2: completion barrier: main is past its wait on done (it is about to
\* read, is reading or has read the final map) only when no consumer holds a
\* semaphore or has a pulled transaction it has not finished.
C2_CompletionBarrier ==
  mainpc # "wait" =>
    \A w \in Consumers :
      /\ held[w] = {}
      /\ txn[w] = NoTxn

\* C2 failing state, for reference: main has left its wait while a consumer
\* is still inside a write to the map.
C2_Overrun ==
  /\ mainpc # "wait"
  /\ \E w \in Consumers : pc[w] = "write"

\* Whether transaction i changed (or will have changed) the balance of
\* account a: a deposit on a, or a withdrawal on a that was written.
Counts(i, a, kind) ==
  /\ rowsRead[i].userID = a
  /\ rowsRead[i].transactionType = kind
  /\ (kind = WITHDRAW => applies[i] > 0)

\* Sum of the amounts of the first n transactions read that count for
\* account a as deposits (kind = DEPOSIT) or applied withdrawals.
RECURSIVE SumAmounts(_, _, _)
SumAmounts(n, a, kind) ==
  IF n = 0 THEN 0
  ELSE SumAmounts(n - 1, a, kind)
         + (IF Counts(n, a, kind) THEN rowsRead[n].value ELSE 0)

DepositsOn(a) == SumAmounts(Len(rowsRead), a, DEPOSIT)
AppliedWithdrawalsOn(a) == SumAmounts(Len(rowsRead), a, WITHDRAW)

\* Every transaction read so far has been sent, pulled and taken through
\* Acquire, apply and Release.
AllCycled ==
  /\ ppc # "send"
  /\ \A i \in TxnIds : releases[i] = 1

\* C3: no lost updates: once every published transaction has completed its
\* acquire-apply-release cycle, each balance is the seed balance plus the
\* deposits on the account minus the withdrawals that were applied.
C3_NoLostUpdates ==
  AllCycled =>
    \A a \in AccountIds :
      accountList[a].value =
        seed[a].value + DepositsOn(a) - AppliedWithdrawalsOn(a)

\* C3 witness: three transactions have completed their cycles, among them
\* both a deposit and an applied withdrawal on one account.
C3_Witness ==
  /\ AllCycled
  /\ Len(rowsRead) = 3
  /\ \E a \in AccountIds : DepositsOn(a) > 0 /\ AppliedWithdrawalsOn(a) > 0

\* The batch of the end-to-end scenario: DEPOSIT 30 on 1, WITHDRAW 20 on 1,
\* DEPOSIT 10 on 2.
ScenarioBatch ==
  << [id |-> 1, value |-> 30, transactionType |-> DEPOSIT, userID |-> 1],
     [id |-> 2, value |-> 20, transactionType |-> WITHDRAW, userID |-> 1],
     [id |-> 3, value |-> 10, transactionType |-> DEPOSIT, userID |-> 2] >>

\* C4: end-to-end scenario: seeded with A = 100 and B = 50 and given the
\* scenario batch, the map main has read when it returns shows A = 110 and
\* B = 60, whatever the number of consumers and the schedule.
C4_EndToEnd ==
  ( /\ status = "exited"
    /\ seed = SeedScenario
    /\ rowsRead = ScenarioBatch )
  => /\ report[1].value = 110
     /\ report[2].value = 60

\* Number of times transaction i has left the channel.
Pulls(i) == Cardinality({k \in 1..Len(pulledOrder) : pulledOrder[k].id = i})

\* C5: exactly-once delivery: a transaction is never pulled twice nor written
\* twice, no two consumers work on the same transaction, a send that has
\* returned was taken by a consumer, and the channel is closed only after
\* every transaction read has been pulled.
C5_ExactlyOnce ==
  /\ \A i \in TxnIds : Pulls(i) <= 1 /\ applies[i] <= 1
  /\ \A k \in 1..Len(pulledOrder) :
       pulledOrder[k] = rowsRead[pulledOrder[k].id]
  /\ \A w1, w2 \in Consumers :
       (w1 # w2 /\ txn[w1] # NoTxn) => txn[w1].id # txn[w2].id
  /\ \A w \in Consumers : txn[w] # NoTxn => Pulls(txn[w].id) = 1
  /\ (ppc # "send") => \A i \in TxnIds : Pulls(i) = 1
  /\ closed => \A i \in TxnIds : Pulls(i) = 1

\* C5 witness: the channel is closed after three transactions, which two
\* different consumers are working on or have worked on.
C5_Witness ==
  /\ closed
  /\ Len(pulledOrder) = 3
  /\ \E w1, w2 \in Consumers : w1 # w2 /\ txn[w1] # NoTxn /\ txn[w2] # NoTxn

\* A consumer has just had its withdrawal rejected: it is back in consume,
\* before the Release, with a snapshot smaller than the amount.
Rejected(w) ==
  /\ pc[w] = "release"
  /\ txn[w].transactionType = WITHDRAW
  /\ accountData[w].value < txn[w].value

\* The step in which withdraw, holding the read lock, finds the balance
\* smaller than the amount.
RejectingStep(w) ==
  /\ pc[w] = "read" /\ pc'[w] # "read"
  /\ txn[w].transactionType = WITHDRAW
  /\ MapGet(accountList, txn[w].userID).value < txn[w].value

\* C6: insufficient funds: a withdrawal larger than the balance read leaves
\* the map unchanged (no write is made for it, and the entry still is the one
\* read when the consumer reaches the Release), raises no error, and the
\* consumer goes on to the Release and from there back to the channel.
C6_InsufficientFunds ==
  /\ [](\A w \in Consumers :
          Rejected(w) =>
            /\ accountList[txn[w].userID] = accountData[w]
            /\ applies[txn[w].id] = 0)
  /\ [][\A w \in Consumers :
          RejectingStep(w) =>
            /\ pc'[w] = "release"
            /\ accountList' = accountList
            /\ status' = "running"]_vars
  /\ [][\A w \in Consumers :
          (Rejected(w) /\ pc'[w] # "release") =>
            /\ pc'[w] = "recv"
            /\ held'[w] = {}
            /\ accountList' = accountList
            /\ status' = "running"]_vars

\* C6 witness: the withdrawal of 50 on the account of balance 1 was rejected,
\* its consumer has released and is back at the channel, and the balance is 1.
C6_Witness ==
  /\ seed = SeedSource
  /\ \E i \in TxnIds :
       /\ rowsRead[i].transactionType = WITHDRAW
       /\ rowsRead[i].value = 50
       /\ rowsRead[i].userID = 5
       /\ releases[i] = 1
       /\ applies[i] = 0
  /\ accountList[5].value = 1
  /\ \A w \in Consumers : pc[w] = "recv"

\* The transactions that have been pulled and are no longer with a consumer.
Finished(i) == Pulls(i) > 0 /\ \A w \in Consumers : txn[w].id # i

\* C7: permit release on every path: a finished transaction was released
\* exactly once, and after it was applied (a deposit was written, a
\* withdrawal was written unless the funds were short); no transaction is
\* released twice; a consumer at the Release holds the semaphore it releases;
\* a consumer at the channel or past its loop holds none.
C7_ReleaseOnEveryPath ==
  /\ \A i \in TxnIds : releases[i] <= 1
  /\ \A i \in TxnIds : Finished(i) => releases[i] = 1
  /\ \A i \in TxnIds :
       (releases[i] = 1 /\ rowsRead[i].transactionType = DEPOSIT)
         => applies[i] = 1
  /\ \A w \in Consumers :
       pc[w] = "release" => SemIndex(txn[w].userID) \in held[w]
  /\ \A w \in Consumers :
       pc[w] \in {"recv", "senddone", "exited"} => held[w] = {}

\* C7 witness: a deposit, an applied withdrawal and a rejected withdrawal
\* have all been released.
C7_Witness ==
  \E i, j, k \in TxnIds :
    /\ releases[i] = 1 /\ releases[j] = 1 /\ releases[k] = 1
    /\ rowsRead[i].transactionType = DEPOSIT
    /\ rowsRead[j].transactionType = WITHDRAW /\ applies[j] = 1
    /\ rowsRead[k].transactionType = WITHDRAW /\ applies[k] = 0

\* The consumers holding the semaphore at slice index i.
Holders(i) == {w \in Consumers : i \in held[w]}

\* C8: permit invariant: each semaphore is held by no consumer or by one, its
\* count says so, and a consumer about to acquire holds no semaphore.
C8_PermitInvariant ==
  /\ \A i \in DOMAIN semaphores :
       /\ Cardinality(Holders(i)) <= 1
       /\ semaphores[i] = Cardinality(Holders(i))
  /\ \A w \in Consumers : pc[w] = "acquire" => held[w] = {}

\* C8 witness: two consumers each hold a semaphore, of different accounts.
C8_Witness ==
  \E w1, w2 \in Consumers :
    /\ w1 # w2
    /\ held[w1] # {} /\ held[w2] # {}
    /\ held[w1] # held[w2]

\* A consumer is inside withdraw or deposit, reading or writing the map.
InLedger(w) == pc[w] \in {"rlock", "read", "lock", "lockwait", "write"}

\* C9: permit bracketing: a consumer reading or writing the entry of account
\* X holds the semaphore at X's index and is its only holder; the index is
\* inside the slice for every account of the seed, and different accounts
\* have different indexes.
C9_PermitBracketing ==
  /\ \A w \in Consumers :
       InLedger(w) =>
         /\ txn[w].userID \in AccountIds
         /\ Holders(SemIndex(txn[w].userID)) = {w}
         /\ semaphores[SemIndex(txn[w].userID)] = 1
  /\ \A a \in AccountIds : SemIndex(a) \in DOMAIN semaphores
  /\ \A a, b \in AccountIds : a # b => SemIndex(a) # SemIndex(b)

\* C9 witness: a consumer is writing one account's entry while another is
\* inside withdraw or deposit on a different account.
C9_Witness ==
  \E w1, w2 \in Consumers :
    /\ pc[w1] = "write"
    /\ InLedger(w2)
    /\ txn[w1].userID # txn[w2].userID

\* C10: the map is never accessed torn: while a consumer is writing the map
\* (it holds mapMutex for writing) no other consumer writes or reads it and
\* main is not reading it for the final report.
C10_NoTornAccess ==
  \A w \in Consumers :
    pc[w] = "write" =>
      /\ mainpc # "reporting"
      /\ \A v \in Consumers : v # w => pc[v] \notin {"read", "write"}

\* C11: producer protocol: the transactions leave the channel in input order
\* (the k-th pulled is the k-th row read); the channel is closed by the one
\* step that ends produce, with every row read already pulled; once closed it
\* stays closed and nothing more is read or published.
C11_ProducerProtocol ==
  /\ [](/\ Len(pulledOrder) <= Len(rowsRead)
        /\ \A k \in 1..Len(pulledOrder) : pulledOrder[k] = rowsRead[k]
        /\ closed => (ppc = "done" /\ pulledOrder = rowsRead))
  /\ [][(closed' /\ ~closed) => (ppc = "read" /\ ppc' = "done")]_vars
  /\ [][closed => /\ closed'
                  /\ ppc' = ppc
                  /\ rowsRead' = rowsRead
                  /\ pulledOrder' = pulledOrder]_vars

\* C11 witness: the three transactions of the scenario batch have left the
\* channel, in input order, and the channel is closed.
C11_Witness ==
  /\ closed
  /\ pulledOrder = ScenarioBatch

\* The batch DEPOSIT 50, WITHDRAW 50 on account 5, whose seed balance is 1.
ReorderBatch ==
  << [id |-> 1, value |-> 50, transactionType |-> DEPOSIT, userID |-> 5],
     [id |-> 2, value |-> 50, transactionType |-> WITHDRAW, userID |-> 5] >>

\* C12: input order is not preserved per account: for the batch DEPOSIT 50,
\* WITHDRAW 50 on the account of balance 1, the final balance is 1 (the
\* withdrawal ran after the deposit and was applied) or 51 (the withdrawal
\* ran first and was rejected), and nothing else; a single consumer always
\* gives 1.  The witness shows that 51, the reversed order, is reached.
C12_OrderNotPreserved ==
  (seed = SeedSource /\ rowsRead = ReorderBatch /\ AllCycled) =>
    /\ accountList[5].value \in {1, 51}
    /\ (accountList[5].value = 51) <=> (applies[2] = 0)
    /\ (accountList[5].value = 1) <=> (applies[2] = 1)
    /\ consumerCount = 1 => accountList[5].value = 1

\* C12 witness: with two consumers the withdrawal, second in the input, went
\* through its cycle before the deposit: it was rejected and the run ends
\* with the balance 51.
C12_Witness ==
  /\ seed = SeedSource /\ rowsRead = ReorderBatch /\ AllCycled /\ closed
  /\ consumerCount >= 2
  /\ applies[2] = 0
  /\ accountList[5].value = 51

\* Every consumer has left its range loop (it is at, or past, the send on
\* done that ends consume).
AllLeftLoop == \A w \in Consumers : pc[w] \in {"senddone", "exited"}

\* The run was aborted: an index panic in consume or produce, a malformed
\* row, or the runtime's abort of the racing final print.
Aborted == status \in {"panic", "fatal"}

\* C13: worker termination: once the channel is closed (and, being
\* unbuffered, drained), every consumer eventually leaves its loop and reaches
\* the end of consume, unless the run is aborted.
C13_WorkersTerminate == closed ~> (AllLeftLoop \/ Aborted)

\* The run was aborted by its input: a transaction on an unknown account made
\* consume panic, a short record made produce panic, or a field that does not
\* parse made produce call log.Fatal.
InputAbort == status = "panic" \/ (status = "fatal" /\ mainpc = "wait")

\* C14: main-flow termination: for every batch of well-formed rows on known
\* accounts (any other input aborts the run) and every number of consumers,
\* main eventually is past the wait and reads the map for the final report.
\* Under FairSpec a run stops only where no step is possible, so a deadlock
\* before that point would be a run that violates this.
C14_MainTerminates ==
  <>(mainpc \in {"reporting", "exit"} \/ InputAbort)

\* C14 witness: main has passed the wait and made its report after a batch of
\* three transactions, with two consumers.
C14_Witness ==
  /\ mainpc = "exit"
  /\ Len(rowsRead) = 3
  /\ consumerCount = 2
  /\ report # << >>

\* A consumer has pulled a transaction whose account has no entry in the
\* seed, hence no semaphore (its id is below 1 or above the number of
\* accounts).
UnknownAccount(w) == txn[w] # NoTxn /\ txn[w].userID \notin AccountIds

\* C15: unknown account is fatal: a consumer that has pulled a transaction
\* on an unknown account never gets past the Acquire (it takes no semaphore,
\* reads and writes nothing for it), its Acquire step panics and ends the run
\* with the map untouched, no panic outside produce has another cause, and
\* the map's keys always are the seed's keys.
C15_UnknownAccountFatal ==
  /\ [](/\ DOMAIN accountList = AccountIds
        /\ \A w \in Consumers :
             UnknownAccount(w) =>
               /\ pc[w] = "acquire"
               /\ held[w] = {}
               /\ applies[txn[w].id] = 0
        /\ (status = "panic" /\ ppc # "panic") =>
             \E w \in Consumers : UnknownAccount(w))
  /\ [][\A w \in Consumers :
          (UnknownAccount(w) /\ Acquire(w)) =>
            /\ status' = "panic"
            /\ accountList' = accountList
            /\ semaphores' = semaphores]_vars
  /\ [][(status = "running" /\ status' = "panic" /\ ppc' # "panic") =>
          \E w \in Consumers : UnknownAccount(w) /\ Acquire(w)]_vars

\* C15 witness: the run has been aborted by a transaction on an account below
\* 1 or past the last one, after an earlier transaction had changed the map.
C15_Witness ==
  /\ status = "panic" /\ ppc # "panic"
  /\ \E w \in Consumers :
       UnknownAccount(w) /\ (txn[w].userID < 1 \/ txn[w].userID > Len(seed))
  /\ accountList # seed

\* Consumer w makes the step that stores account k (line 183 or 205).
Writes(w, k) == pc[w] = "write" /\ txn[w].userID = k /\ pc'[w] = "release"

\* C16: frame of a transaction: the map always has the seed's keys, with the
\* seed's id and name in every entry; a step changes at most one entry, only
\* its value, and only when a consumer stores the account of its
\* transaction.
C16_Frame ==
  /\ [](/\ DOMAIN accountList = DOMAIN seed
        /\ \A k \in DOMAIN seed :
             /\ accountList[k].id = seed[k].id
             /\ accountList[k].name = seed[k].name)
  /\ [][\A k \in DOMAIN accountList :
          accountList'[k] # accountList[k] =>
            /\ \E w \in Consumers : Writes(w, k)
            /\ accountList'[k].id = accountList[k].id
            /\ accountList'[k].name = accountList[k].name
            /\ \A j \in DOMAIN accountList :
                 j # k => accountList'[j] = accountList[j]]_vars

\* C16 witness: a deposit and a withdrawal have changed the balance of one
\* account, whose id and name are the seed's, and another account's entry is
\* the seed's.
C16_Witness ==
  \E k, j \in DOMAIN seed :
    /\ k # j
    /\ accountList[k].value # seed[k].value
    /\ DepositsOn(k) > 0 /\ AppliedWithdrawalsOn(k) > 0
    /\ accountList[k].id = seed[k].id /\ accountList[k].name = seed[k].name
    /\ accountList[j] = seed[j]

\* C17: balances never go negative: every seed balance being non-negative
\* and every amount positive, every balance in the map is >= 0 in every
\* reachable state.
C17_NonNegative ==
  /\ \A k \in DOMAIN seed : seed[k].value >= 0
  /\ \A i \in TxnIds : rowsRead[i].value > 0
  /\ \A k \in DOMAIN accountList : accountList[k].value >= 0

\* C17 witness: on the account seeded with 1, a withdrawal of 50 was applied
\* (after a deposit) and another was rejected; the balance is back to 1.
C17_Witness ==
  /\ seed = SeedSource
  /\ AllCycled
  /\ accountList[5].value = 1
  /\ \E i, j \in TxnIds :
       /\ rowsRead[i].transactionType = WITHDRAW /\ applies[i] = 1
       /\ rowsRead[j].transactionType = WITHDRAW /\ applies[j] = 0

\* A consumer holds at most one semaphore and, while it holds one, is neither
\* at the Acquire nor at the channel.
OnePermitNoWait(w) ==
  /\ Cardinality(held[w]) <= 1
  /\ held[w] # {} => pc[w] \notin {"acquire", "recv", "senddone", "exited"}

\* Consumer w holds a semaphore and, the process running, cannot take a step.
BlockedHolder(w) == Running /\ held[w] # {} /\ ~ENABLED ConsumerStep(w)

\* C18 as claimed: no hold-and-wait: every consumer holds at most one
\* semaphore, is never at the Acquire or at the channel while holding one,
\* and a consumer holding a semaphore always has an enabled step.
C18_NoHoldAndWait ==
  \A w \in Consumers : OnePermitNoWait(w) /\ ~BlockedHolder(w)

\* C18 amended: every consumer holds at most one semaphore and is never at
\* the Acquire or at the channel while holding one; a consumer holding a
\* semaphore can be blocked, but only inside withdraw or deposit waiting for
\* mapMutex, and then a consumer that holds mapMutex or is about to get it
\* has an enabled step: no cycle of consumers waiting on each other.
C18_HoldersWaitOnlyForMapMutex ==
  \A w \in Consumers :
    /\ OnePermitNoWait(w)
    /\ BlockedHolder(w) =>
         /\ pc[w] \in {"rlock", "lock", "lockwait"}
         /\ \E v \in Consumers :
              /\ v # w
              /\ pc[v] \in {"read", "lockwait", "write"}
              /\ ENABLED ConsumerStep(v)

\* C18 witness: a consumer holding its account's semaphore waits at RLock
\* while another consumer, holding another account's semaphore, writes.
C18_Witness ==
  \E w, v \in Consumers :
    /\ BlockedHolder(w) /\ pc[w] = "rlock"
    /\ pc[v] = "write" /\ held[v] # {} /\ held[v] # held[w]

\* Consumer w has in hand a transaction whose type is neither 1 nor 2.
UnknownKind(w) ==
  txn[w] # NoTxn /\ txn[w].transactionType \notin {WITHDRAW, DEPOSIT}

\* The transactions read so far whose type is neither 1 nor 2.
UnknownKindIds ==
  {i \in TxnIds : rowsRead[i].transactionType \notin {WITHDRAW, DEPOSIT}}

\* C19: a transaction whose type is neither withdrawal nor deposit is a
\* no-op: the consumer acquires the account's semaphore, calls neither
\* withdraw nor deposit, and releases the semaphore; no balance changes, no
\* error is raised and the transaction is never applied.
C19_UnknownKindNoOp ==
  /\ [](/\ \A w \in Consumers :
             UnknownKind(w) => pc[w] \in {"acquire", "release"}
        /\ \A i \in UnknownKindIds : applies[i] = 0 /\ releases[i] <= 1)
  /\ [][\A w \in Consumers :
          (UnknownKind(w) /\ txn[w].userID \in AccountIds /\ ConsumerStep(w)) =>
            /\ accountList' = accountList
            /\ status' = status
            /\ \/ /\ pc[w] = "acquire" /\ pc'[w] = "release"
                  /\ held'[w] = {SemIndex(txn[w].userID)}
               \/ /\ pc[w] = "release" /\ pc'[w] = "recv"
                  /\ held'[w] = {} /\ txn'[w] = NoTxn
                  /\ releases'[txn[w].id] = 1]_vars

\* C19 witness: the only transaction of the batch has type 3 on account 5; it
\* went through its acquire and release and the ledger is the seed.
C19_Witness ==
  /\ Len(rowsRead) = 1 /\ UnknownKindIds = {1}
  /\ rowsRead[1].userID = 5
  /\ releases[1] = 1 /\ applies[1] = 0
  /\ closed /\ accountList = seed /\ status = "running"
  /\ \A w \in Consumers : held[w] = {}

====
